---- MODULE Spec2Model ----
(***************************************************************************)
(* Fund Manager orchestration pipeline                                     *)
(* (src/fund_manager/completed/fund_manager.py): a LangGraph of three      *)
(* nodes, financial -> portfolio -> risk, each of which invokes a remote    *)
(* agent, relays the decoded frames of its streamed response, captures the  *)
(* final result, and saves the exchange to AgentCore Memory.                *)
(***************************************************************************)
EXTENDS Integers, Sequences, FiniteSets, TLC

(* ---------------- bounds ---------------- *)

\* Number of lines the three agents send, in total, during a run.
MaxFrames == 2

\* Largest wall-clock reading (seconds) the entry point can observe.
MaxClock == 1

(* ---------------- Python values ---------------- *)

\* A Python value: its type and a printable content.
PyNone == [ty |-> "NoneType", v |-> "None"]

PyStr(s) == [ty |-> "str", v |-> s]

PyDict(s) == [ty |-> "dict", v |-> s]

\* bool(x) of a Python value: None, "" and {} are falsy.
Truthy(x) == x.ty # "NoneType" /\ x.v # ""

\* The request the entry point is called with (payload["input_data"]).
UserInputs == {PyDict("request")}

\* payload.get("session_id"): absent, or a caller-chosen id.
SessionArgs == {PyNone, PyStr("sA")}

Clock == 0..MaxClock

\* f"session_{datetime.now().strftime('%Y%m%d_%H%M%S')}" at clock reading t.
SynthSessionId(t) == [ty |-> "str", v |-> "session_" \o ToString(t)]

\* FUND_MEMORY_ID / deployment_info.json["memory_id"]
MemoryIds == {PyStr("mem-1"), PyStr("")}

\* Causes of a failed agent invocation (exception raised by the transport).
TransportCauses == {"ConnectionError", "HTTP500"}

(* ---------------- lines of an agent response ---------------- *)

NoTag == "-"

\* A decoded JSON object of the stream.  agent_name and session_id are the
\* keys the graph nodes put on their own events; frames of an agent carry
\* none (NoTag).
Frame(type, val) ==
    [json |-> "object", type |-> type, val |-> val,
     agent_name |-> NoTag, session_id |-> NoTag]

\* A JSON value that is not an object (a number, a list, null, a string).
ScalarJson ==
    [json |-> "scalar", type |-> NoTag, val |-> PyNone,
     agent_name |-> NoTag, session_id |-> NoTag]

\* Text after "data: " that json.loads rejects.
InvalidJson ==
    [json |-> "invalid", type |-> NoTag, val |-> PyNone,
     agent_name |-> NoTag, session_id |-> NoTag]

\* Values of the "result" key of a streaming_complete frame.
Results == {PyStr(""), PyStr("ra"), PyStr("rb")}

ObjectFrames ==
    {Frame("text_chunk", PyStr("hi")), Frame("error", PyStr("boom")),
     Frame("ping", PyNone)}
    \cup {Frame("streaming_complete", r) : r \in Results}

Bodies == {InvalidJson, ScalarJson} \cup ObjectFrames

\* A line as iter_lines delivers it: raw is "empty" (b""), "bad_utf8"
\* (bytes that are not UTF-8), "comment" (text without the "data: " prefix)
\* or "data" (text "data: " + body).
Line(raw, body) == [raw |-> raw, body |-> body]

Lines ==
    {Line("empty", InvalidJson), Line("bad_utf8", InvalidJson),
     Line("comment", InvalidJson)}
    \cup {Line("data", b) : b \in Bodies}

(* ---------------- the graph ---------------- *)

END == "__end__"

Stages == <<"financial", "portfolio", "risk">>

StageSet == {"financial", "portfolio", "risk"}

StageNo(n) == CHOOSE k \in 1..3 : Stages[k] = n

\* A graph that jumps from financial to risk.
NextNode_skip(n) ==
    CASE n = "financial" -> "risk"
      [] n = "portfolio" -> "risk"
      [] n = "risk" -> END

\* workflow.add_edge(...)
NextNode(n) ==
    CASE n = "financial" -> "portfolio"
      [] n = "portfolio" -> "risk"
      [] n = "risk" -> END

VARIABLES
    pc,            \* position of the run: idle, node, stream, done, raised
    cur,           \* the graph node being executed
    state,         \* FundManagerState
    memory_id,     \* AgentClient.memory_id
    final_result,  \* local of call_agent_with_streaming
    response,      \* lines of the open response that are not read yet
    sent,          \* history: the lines each agent's transport delivered
    frames,        \* lines sent so far in this run
    exc,           \* the exception that ended the run, if any
    log,           \* history: emits, agent invocations, faults, memory writes
    app,           \* invoke_fund_manager (app.py): the locals of one call
    feed,          \* the stream invoke_fund_manager reads: what was sent
    corr,          \* history: the tool calls of that stream
    runs,          \* two concurrent run_consultation calls
    cons,          \* the invoke_fund_manager call that reads each of them
    now,           \* the wall clock the two calls read
    store,         \* the Memory Store the two calls write to
    reader,        \* load_current_session_summary and the history menu
    memsvc,        \* whether the Memory Store answers a create_event call
    cleanup,       \* a run of a cleanup script (cleanup.py main)
    deploy         \* a run of the deployment script (deploy.py main)

pipeVars ==
    <<pc, cur, state, memory_id, final_result, response, sent, frames, exc,
      log>>

appVars == <<app, feed, corr>>

twoVars == <<runs, cons, now, store>>

opsVars == <<reader, memsvc, cleanup, deploy>>

vars == <<pipeVars, appVars, twoVars, opsVars>>

NoState ==
    [user_input |-> PyNone, session_id |-> PyNone,
     financial_analysis |-> PyStr(""), portfolio_recommendation |-> PyStr(""),
     risk_analysis |-> PyStr("")]

\* The responses an agent can give with n lines left in the bound.
Responses(n) == UNION {[1..k -> Lines] : k \in 0..n}

(* ---------------- history entries ---------------- *)

Emit(ev) == [op |-> "emit", agent |-> cur, data |-> ev, ok |-> TRUE]

Invoke(agent, payload) ==
    [op |-> "invoke", agent |-> agent, data |-> payload, ok |-> TRUE]

\* The transport of the agent's response failed with this cause.
Fault(agent, cause) ==
    [op |-> "fault", agent |-> agent, data |-> cause, ok |-> FALSE]

Write(agent, turn, ok) ==
    [op |-> "write", agent |-> agent, data |-> turn, ok |-> ok]

\* writer({"type": "node_start", "agent_name": ..., "session_id": ...})
NodeStartEvent(n, st) ==
    [json |-> "object", type |-> "node_start", val |-> PyNone,
     agent_name |-> n, session_id |-> st.session_id]

\* A node_complete copied from the financial node with its name left in.
NodeCompleteEvent_copied(n, st, result) ==
    [json |-> "object", type |-> "node_complete", val |-> result,
     agent_name |-> "financial", session_id |-> st.session_id]

\* writer({"type": "node_complete", ..., "result": result})
NodeCompleteEvent(n, st, result) ==
    [json |-> "object", type |-> "node_complete", val |-> result,
     agent_name |-> n, session_id |-> st.session_id]

\* A risk node that reads the financial analysis.
NodeInput_stale(n, st) ==
    CASE n = "financial" -> st.user_input
      [] n = "portfolio" -> st.financial_analysis
      [] n = "risk" -> st.financial_analysis

\* The value each node passes to call_agent_with_streaming.
NodeInput(n, st) ==
    CASE n = "financial" -> st.user_input
      [] n = "portfolio" -> st.financial_analysis
      [] n = "risk" -> st.portfolio_recommendation

\* A node that stores "" for a result of None.
NodeStore_blank(n, st, result) ==
    LET r == IF result = PyNone THEN PyStr("") ELSE result IN
    CASE n = "financial" -> [st EXCEPT !.financial_analysis = r]
      [] n = "portfolio" -> [st EXCEPT !.portfolio_recommendation = r]
      [] n = "risk" -> [st EXCEPT !.risk_analysis = r]

\* state[<field of the node>] = result
NodeStore(n, st, result) ==
    CASE n = "financial" -> [st EXCEPT !.financial_analysis = result]
      [] n = "portfolio" -> [st EXCEPT !.portfolio_recommendation = result]
      [] n = "risk" -> [st EXCEPT !.risk_analysis = result]

(* ---------------- save_to_memory ---------------- *)

\* json.dumps(user_input) if isinstance(user_input, dict) else str(user_input)
InputText(user_input) ==
    IF user_input.ty = "dict"
    THEN [fmt |-> "json", of |-> user_input.v]
    ELSE [fmt |-> "str", of |-> user_input.v]

\* The two messages of create_event.
MemoryTurn(session_id, agent_type, user_input, agent_result) ==
    [session_id |-> session_id,
     user |-> <<agent_type, InputText(user_input)>>,
     assistant |-> <<agent_type, agent_result.v>>]

\* A guard that forgets to look at the result.
SaveSkipped_anyResult(mid, agent_result) == ~Truthy(mid)

\* if not self.memory_id or not agent_result: return
SaveSkipped(mid, agent_result) == ~Truthy(mid) \/ ~Truthy(agent_result)

\* The history entries save_to_memory adds; created is the outcome of
\* create_event (FALSE: it raised, and the except clause swallowed it).
SaveToMemory(mid, session_id, agent_type, user_input, agent_result, created) ==
    IF SaveSkipped(mid, agent_result)
    THEN << >>
    ELSE << Write(agent_type,
                  MemoryTurn(session_id, agent_type, user_input, agent_result),
                  created) >>

(* ---------------- invoke_fund_manager (app.py) ---------------- *)

\* Number of agent frames in the stream one invoke_fund_manager call reads.
MaxAppFrames == 3

ToolIds == {"t1", "t2"}

\* tool_name as its segments between "___": <<"gw", "get_market_data">> is
\* "gw___get_market_data".
ToolNames == {<<"calculator">>, <<"gw", "get_market_data">>}

\* The tool_input that comes with each tool.
ToolInputOf(name) == IF Len(name) = 1 THEN "i1" ELSE "i2"

ToolUseFrame(id, name) ==
    Frame("tool_use",
          [ty |-> "tool_use", v |-> id, name |-> name,
           input |-> ToolInputOf(name)])

ToolResultFrame(id) ==
    Frame("tool_result", [ty |-> "tool_result", v |-> id, content |-> "{}"])

AppFrames ==
    ObjectFrames
    \cup {ToolUseFrame(id, name) : id \in ToolIds, name \in ToolNames}
    \cup {ToolResultFrame(id) : id \in ToolIds}

AppLines ==
    {Line("empty", InvalidJson), Line("bad_utf8", InvalidJson),
     Line("comment", InvalidJson)}
    \cup {Line("data", b) : b \in {InvalidJson, ScalarJson} \cup AppFrames}

\* The results a node_complete event of the stream carries.
AppResults == {PyNone, PyStr("{json}"), PyStr("text")}

\* extract_json_from_text(text) is not None
ExtractsJson(text) == text.ty = "dict" \/ (text.ty = "str" /\ text.v = "{json}")

\* tool_name.split("___")[-1] if "___" in tool_name else tool_name
ActualToolName(name) == name[Len(name)]

Unknown == "unknown"

\* A key that is not in a dict.
Absent == NoTag

\* No tool_result has been handled yet.
NoHandled == [id |-> NoTag, name |-> NoTag, input |-> NoTag, agent |-> NoTag]

\* The locals of invoke_fund_manager before the request is sent. handled is
\* the last tool_result that was handled: the name and input it was handled
\* with; shown is the set of stages whose result was displayed.
AppIdle ==
    [pc |-> "idle", status |-> NoTag, error |-> NoTag,
     current_agent |-> NoTag, agent_containers |-> {}, thinking |-> {},
     tool_id_to_name |-> [t \in ToolIds |-> Absent],
     tool_id_to_input |-> [t \in ToolIds |-> Absent],
     handled |-> NoHandled, shown |-> {}]

\* except Exception as e: return {"status": "error", "error": str(e)}
AppRaise(c, e) == [c EXCEPT !.pc = "returned", !.status = "error", !.error = e]

\* A handler that keeps the first entry of an id.
AppOnToolUse_first(c, ev) ==
    IF c.tool_id_to_name[ev.val.v] # Absent THEN c
    ELSE [c EXCEPT !.tool_id_to_name[ev.val.v] = ActualToolName(ev.val.name),
                   !.tool_id_to_input[ev.val.v] = ev.val.input]

\* elif event_type == "tool_use"
AppOnToolUse(c, ev) ==
    [c EXCEPT !.tool_id_to_name[ev.val.v] = ActualToolName(ev.val.name),
              !.tool_id_to_input[ev.val.v] = ev.val.input]

\* A handler that keeps the entry of a handled tool_result.
AppOnToolResult_keep(c, ev) ==
    LET id == ev.val.v
        name == IF c.tool_id_to_name[id] = Absent THEN Unknown
                ELSE c.tool_id_to_name[id]
        input == IF c.tool_id_to_input[id] = Absent THEN Unknown
                 ELSE c.tool_id_to_input[id]
    IN [c EXCEPT !.handled = [id |-> id, name |-> name, input |-> input,
                              agent |-> c.current_agent],
                 !.thinking = c.thinking \ {c.current_agent}]

\* A handler that looks the input up under the wrong key.
AppOnToolResult_noInput(c, ev) ==
    LET id == ev.val.v
        name == IF c.tool_id_to_name[id] = Absent THEN Unknown
                ELSE c.tool_id_to_name[id]
        h == [id |-> id, name |-> name, input |-> Unknown,
              agent |-> c.current_agent]
    IN IF c.current_agent = NoTag
       THEN [c EXCEPT !.handled = h]
       ELSE [c EXCEPT !.handled = h,
                      !.thinking = c.thinking \ {c.current_agent},
                      !.tool_id_to_name[id] = Absent,
                      !.tool_id_to_input[id] = Absent]

\* A handler for which an unknown id is an error.
AppOnToolResult_strict(c, ev) ==
    LET id == ev.val.v
        h == [id |-> id, name |-> c.tool_id_to_name[id],
              input |-> c.tool_id_to_input[id], agent |-> c.current_agent]
    IN IF c.tool_id_to_name[id] = Absent
       THEN AppRaise(c, "KeyError")
       ELSE [c EXCEPT !.handled = h,
                      !.thinking = c.thinking \ {c.current_agent},
                      !.tool_id_to_name[id] = Absent,
                      !.tool_id_to_input[id] = Absent]

\* elif event_type == "tool_result": the name and the input are looked up
\* with "unknown" as the default, the result is displayed, and, if a stage
\* is current, the entries of the id are deleted.
AppOnToolResult(c, ev) ==
    LET id == ev.val.v
        name == IF c.tool_id_to_name[id] = Absent THEN Unknown
                ELSE c.tool_id_to_name[id]
        input == IF c.tool_id_to_input[id] = Absent THEN Unknown
                 ELSE c.tool_id_to_input[id]
        h == [id |-> id, name |-> name, input |-> input,
              agent |-> c.current_agent]
    IN IF c.current_agent = NoTag
       THEN [c EXCEPT !.handled = h]
       ELSE [c EXCEPT !.handled = h,
                      !.thinking = c.thinking \ {c.current_agent},
                      !.tool_id_to_name[id] = Absent,
                      !.tool_id_to_input[id] = Absent]

\* elif event_type == "node_start"
AppOnNodeStart(c, ev) ==
    [c EXCEPT !.current_agent = ev.agent_name,
              !.agent_containers = c.agent_containers \cup {ev.agent_name},
              !.thinking = c.thinking \ {ev.agent_name}]

\* elif event_type == "node_complete": display_financial_analysis calls
\* data.get on what extract_json_from_text returns; the portfolio and risk
\* displays catch their own exceptions.
AppOnNodeComplete(c, ev) ==
    IF ev.agent_name \in c.agent_containers /\ Truthy(ev.val)
    THEN IF ev.agent_name = "financial" /\ ~ExtractsJson(ev.val)
         THEN AppRaise(c, "AttributeError")
         ELSE [c EXCEPT !.shown = c.shown \cup {ev.agent_name}]
    ELSE c

\* A chain that has no branch for error events.
AppOnEvent_noError(c, ev) ==
    CASE ev.type = "text_chunk" ->
           IF c.current_agent # NoTag
           THEN [c EXCEPT !.thinking = c.thinking \cup {c.current_agent}]
           ELSE c
      [] ev.type = "tool_use" -> AppOnToolUse(c, ev)
      [] ev.type = "tool_result" -> AppOnToolResult(c, ev)
      [] ev.type = "node_start" -> AppOnNodeStart(c, ev)
      [] ev.type = "node_complete" -> AppOnNodeComplete(c, ev)
      [] OTHER -> c

\* The if/elif chain on event_type.
AppOnEvent(c, ev) ==
    CASE ev.type = "text_chunk" ->
           IF c.current_agent # NoTag
           THEN [c EXCEPT !.thinking = c.thinking \cup {c.current_agent}]
           ELSE c
      [] ev.type = "tool_use" -> AppOnToolUse(c, ev)
      [] ev.type = "tool_result" -> AppOnToolResult(c, ev)
      [] ev.type = "node_start" -> AppOnNodeStart(c, ev)
      [] ev.type = "node_complete" -> AppOnNodeComplete(c, ev)
      [] ev.type = "error" ->
           [c EXCEPT !.pc = "returned", !.status = "error",
                     !.error = ev.val.v]
      [] OTHER -> c

\* One iteration of the for loop of invoke_fund_manager.
AppOnLine(c, line) ==
    IF line.raw = "empty" THEN c
    ELSE IF line.raw = "bad_utf8" THEN AppRaise(c, "UnicodeDecodeError")
    ELSE IF line.raw # "data" THEN c
    ELSE IF line.body.json = "invalid" THEN c
    ELSE IF line.body.json # "object" THEN AppRaise(c, "AttributeError")
    ELSE AppOnEvent(c, line.body)

\* The stream before it starts: started stages, whether the last one is
\* open, and the number of agent frames so far.
FeedIdle == [started |-> 0, open |-> FALSE, n |-> 0]

\* No tool_use is waiting for its tool_result.
NoPending ==
    [name |-> << >>, input |-> NoTag, stage |-> NoTag, at |-> 0,
     over |-> << >>]

\* The tool calls of the stream: for each id the last tool_use that no
\* tool_result has answered (its name, input, stage and position, and the
\* name of the pending tool_use it took the place of), the ids
\* whose last tool event is a tool_result, the last line, for the last
\* tool_result what was pending for its id and whether the id had been
\* answered already, and the number of tool_results that had a pending
\* tool_use.
CorrIdle ==
    [pending |-> [t \in ToolIds |-> NoPending], resolved |-> {},
     last |-> InvalidJson, expect |-> NoPending, again |-> FALSE,
     matched |-> 0]

CorrOnLine(k, line, stage) ==
    LET ev == line.body IN
    IF line.raw # "data" \/ ev.json # "object"
    THEN [k EXCEPT !.last = InvalidJson]
    ELSE IF ev.type = "tool_use"
    THEN [k EXCEPT !.last = ev,
                   !.pending[ev.val.v] =
                       [name |-> ev.val.name, input |-> ev.val.input,
                        stage |-> stage, at |-> feed.n + 1,
                        over |-> k.pending[ev.val.v].name],
                   !.resolved = k.resolved \ {ev.val.v}]
    ELSE IF ev.type = "tool_result"
    THEN [k EXCEPT !.last = ev,
                   !.expect = k.pending[ev.val.v],
                   !.again = ev.val.v \in k.resolved,
                   !.matched = IF k.pending[ev.val.v] = NoPending THEN k.matched
                               ELSE k.matched + 1,
                   !.pending[ev.val.v] = NoPending,
                   !.resolved = k.resolved \cup {ev.val.v}]
    ELSE [k EXCEPT !.last = ev]

\* The session id the app sends with its request.
AppSession == [session_id |-> PyStr("sA")]

(* ---------------- two concurrent runs ---------------- *)

\* Number of lines the agents send, in total, to two runs that are in
\* flight together.
MaxTwoLines == 1

\* Two calls of fund_manager_entrypoint in one process.
RunIds == {1, 2}

\* payload["input_data"] of each call.
TwoUserInput(i) == PyDict("request" \o ToString(i))

\* The tool the agents of each run call, both under the id t1.
TwoToolName(i) ==
    IF i = 1 THEN <<"calculator">> ELSE <<"gw", "get_market_data">>

\* The result the agent of stage n gives to run i.
TwoResult(i, n) == PyDict(ToString(i) \o n)

TwoLines(i, n) ==
    {Line("data", ToolUseFrame("t1", TwoToolName(i))),
     Line("data", ToolResultFrame("t1")),
     Line("data", Frame("streaming_complete", TwoResult(i, n)))}

\* The responses the agent of stage n can give to run i with k lines left
\* in the bound.
TwoResponses(i, n, k) == UNION {[1..m -> TwoLines(i, n)] : m \in 0..k}

\* One run_consultation call before it starts: its position, its graph
\* node, its FundManagerState, the locals of call_agent_with_streaming,
\* the chunks it has yielded (out), the agent invocations it has made
\* (inv), the number of lines its agents have sent, the exception that
\* ended it and the session_id it was given.
RunIdle ==
    [pc |-> "idle", cur |-> END, state |-> NoState, final_result |-> PyNone,
     response |-> << >>, out |-> << >>, inv |-> << >>, lines |-> 0,
     exc |-> NoTag, arg |-> PyNone]

\* The invoke_fund_manager call that reads a run's chunks: its locals and
\* the number of chunks it has read.
ConsIdle == [loc |-> AppIdle, read |-> 0]

\* The caller reads a chunk its run has yielded, unless it has returned.
ConsOnChunk(c, ev) ==
    IF c.loc.pc = "consuming"
    THEN [loc |-> AppOnLine(c.loc, Line("data", ev)), read |-> c.read + 1]
    ELSE c

\* The chunk run r has yielded last.
LastChunk(r) == r.out[Len(r.out)]

\* A graph state kept in one module-level dict that every run uses.
RunState_shared(rs, i) == rs[1].state

\* The state the nodes of run i work on: the initial_state dict built by
\* that call of run_consultation and handed to graph.stream.
RunState(rs, i) == rs[i].state

\* One iteration of the for loop of call_agent_with_streaming in a run.
RunOnLine(r, line) ==
    LET rest == [r EXCEPT !.response = Tail(r.response)]
        relayed == [rest EXCEPT !.out = Append(r.out, line.body)]
    IN IF line.raw = "empty" THEN rest
       ELSE IF line.raw = "bad_utf8"
       THEN [rest EXCEPT !.pc = "raised", !.exc = "UnicodeDecodeError"]
       ELSE IF line.raw # "data" THEN rest
       ELSE IF line.body.json = "invalid" THEN rest
       ELSE IF line.body.json # "object"
       THEN [relayed EXCEPT !.pc = "raised", !.exc = "AttributeError"]
       ELSE IF line.body.type = "streaming_complete"
       THEN [relayed EXCEPT !.final_result = line.body.val]
       ELSE relayed

\* The turns a save_to_memory call leaves in the Memory Store.
StoredTurns(writes) ==
    {writes[k].data : k \in {j \in DOMAIN writes : writes[j].ok}}

(* ---------------- the scripts and the history menu ---------------- *)

\* Number of summary records the Memory Store holds.
MaxRecords == 2

\* st.session_state.current_session_id
AppSessions == {"sA", "sB"}

\* A summary record as retrieve_memories returns it: createdAt and a
\* content that is a dict with a "text" key or something else.
SummaryRecords ==
    [createdAt : 1..MaxRecords, content : {"dict", "other"}]

\* content.get('text', str(content)) if isinstance(content, dict)
\* else str(content)
ContentText(rec) ==
    IF rec.content = "dict"
    THEN [fmt |-> "text", of |-> rec.createdAt]
    ELSE [fmt |-> "str", of |-> rec.createdAt]

\* timestamp.isoformat() of the record's createdAt
TimestampStr(rec) == [iso |-> rec.createdAt]

\* What retrieve_memories can answer for a namespace that holds the
\* records recs: some of them, in the order of the store's choosing.
Retrievals(recs) ==
    {q \in UNION {[1..k -> recs] : k \in 0..Cardinality(recs)} :
        \A a, b \in DOMAIN q : a # b => q[a] # q[b]}

\* The dict load_current_session_summary returns for a response.
SummaryOf(session, resp) ==
    IF Len(resp) > 0
    THEN [session_id |-> session, found |-> TRUE,
          timestamp |-> TimestampStr(resp[1]),
          content |-> ContentText(resp[1]), error |-> NoTag]
    ELSE [session_id |-> session, found |-> FALSE,
          timestamp |-> NoTag, content |-> NoTag, error |-> NoTag]

\* The dict load_current_session_summary returns from its except clause.
SummaryFailed(session, cause) ==
    [session_id |-> session, found |-> FALSE,
     timestamp |-> NoTag, content |-> NoTag, error |-> cause]

\* What the history menu puts on the page for a summary_data.
HistoryPage(data) ==
    IF ~data.found
    THEN IF data.error # NoTag THEN "st.error" ELSE "st.warning"
    ELSE "summary"

\* The page before the history menu is opened: the session, the records
\* of each session's namespace in the Memory Store, and of the last
\* load the records its namespace held, the response, whether the read
\* raised, the summary_data and what the page shows.
ReaderIdle ==
    [pc |-> "idle", session |-> "sA",
     stored |-> [a \in AppSessions |-> {}],
     held |-> {}, response |-> << >>, raised |-> FALSE,
     data |-> SummaryOf("sA", << >>), page |-> NoTag]

\* Number of operations (AWS calls, unlinks) that fail in one run of a
\* cleanup script.
MaxFaults == 1

CleanupScripts == {"portfolio_architect", "risk_manager"}

\* The deployment info files load_deployment_info looks for.
InfosOf(script) ==
    IF script = "portfolio_architect"
    THEN {"portfolio", "mcp"}
    ELSE {"risk_manager", "gateway", "lambda", "layer"}

Step(fn, info) == [fn |-> fn, info |-> info]

\* The delete calls of main, in order, each with the info it is made for.
StepsOf(script) ==
    IF script = "portfolio_architect"
    THEN << Step("delete_runtime", "portfolio"),
            Step("delete_runtime", "mcp"),
            Step("delete_ecr_repo", "portfolio"),
            Step("delete_ecr_repo", "mcp"),
            Step("delete_iam_role", "portfolio"),
            Step("delete_iam_role", "mcp"),
            Step("delete_cognito_resources", "mcp") >>
    ELSE << Step("delete_runtime", "risk_manager"),
            Step("delete_gateway", "gateway"),
            Step("delete_lambda_function", "lambda"),
            Step("delete_lambda_layer", "layer"),
            Step("delete_s3_bucket", "layer"),
            Step("delete_ecr_repo", "risk_manager"),
            Step("delete_iam_role", "risk_manager"),
            Step("delete_iam_role", "gateway"),
            Step("delete_iam_role", "lambda"),
            Step("delete_cognito_resources", "gateway") >>

\* len(files_to_delete) in cleanup_local_files
FileCount(script) == IF script = "portfolio_architect" THEN 8 ELSE 7

\* What input() can return.
Answers == {"y", "Y", "n", ""}

\* answer.lower() == 'y'
SaysYes(answer) == answer \in {"y", "Y"}

\* How a delete function can end: it returns True, it returns False from
\* its except Exception clause, or boto3.client raises.
DeleteOutcomes == {"deleted", "failed", "no_client"}

\* What main sees of a delete function: its return, or an exception.
\* Every function catches Exception; in delete_cognito_resources the clause
\* "except cognito.exceptions.ResourceNotFoundException" comes first and
\* reads the local cognito, which is unbound if boto3.client raised.
DeleteEnds(fn, outcome) ==
    IF fn = "delete_cognito_resources" /\ outcome = "no_client"
    THEN "raises" ELSE "returns"

\* The steps of a script main makes with these infos present, as indices.
Applicable(script, infos) ==
    {k \in DOMAIN StepsOf(script) : StepsOf(script)[k].info \in infos}

\* A run of a cleanup script before it starts: the infos found, the
\* answers to the two prompts, the delete calls made and those that did
\* not delete, the local files unlinked, the file whose unlink raised, and
\* the number of failures so far.
CleanupIdle ==
    [pc |-> "idle", script |-> NoTag, infos |-> {}, first |-> NoTag,
     second |-> NoTag, called |-> {}, failed |-> {}, unlinked |-> {},
     stuck |-> 0, faults |-> 0]

\* range(30)
PollLimit == 30

\* runtime.status().endpoint['status']
EndpointStatuses ==
    {"CREATING", "UPDATING", "READY", "CREATE_FAILED", "DELETE_FAILED",
     "UPDATE_FAILED"}

\* A loop that leaves only when the endpoint is ready.
Breaks_readyOnly(status) == status = "READY"

\* if status in ['READY', 'CREATE_FAILED', 'DELETE_FAILED', 'UPDATE_FAILED']
Breaks(status) ==
    status \in {"READY", "CREATE_FAILED", "DELETE_FAILED", "UPDATE_FAILED"}

\* The local status of deploy_fund_manager before its first assignment.
Unbound == "<unbound>"

\* A run of deploy.py before it starts: the number of status checks made,
\* the local status, the status the last check that answered gave, main's
\* return code and whether deployment_info.json was written.
DeployIdle ==
    [pc |-> "idle", polls |-> 0, status |-> Unbound, observed |-> NoTag,
     rc |-> NoTag, written |-> FALSE]

(* ---------------- actions ---------------- *)

\* The state after construction, but for the Memory Store.
InitProgram ==
    /\ pc = "idle"
    /\ cur = END
    /\ state = NoState
    /\ memory_id \in MemoryIds
    /\ final_result = PyNone
    /\ response = << >>
    /\ sent = [n \in StageSet |-> << >>]
    /\ frames = 0
    /\ exc = NoTag
    /\ log = << >>
    /\ app = AppIdle
    /\ feed = FeedIdle
    /\ corr = CorrIdle
    /\ runs = [i \in RunIds |-> RunIdle]
    /\ cons = [i \in RunIds |-> ConsIdle]
    /\ now = 0
    /\ store = {}
    /\ reader = ReaderIdle
    /\ cleanup = CleanupIdle
    /\ deploy = DeployIdle

Init == InitProgram /\ memsvc = "answers"

\* fund_manager_entrypoint / FundManager.run_consultation: build the
\* initial state and start the graph at its entry point.
RunConsultation ==
    /\ pc = "idle"
    /\ \E user_input \in UserInputs, sid \in SessionArgs, t \in Clock :
         state' = [NoState EXCEPT
                     !.user_input = user_input,
                     !.session_id = IF ~Truthy(sid) THEN SynthSessionId(t)
                                    ELSE sid]
    /\ cur' = "financial"
    /\ pc' = "node"
    /\ UNCHANGED <<memory_id, final_result, response, sent, frames, exc, log>>
    /\ UNCHANGED <<appVars, twoVars, opsVars>>

\* A node starts: node_start is written and the agent is invoked; the
\* agent answers with a response, which is open.
EnterNode ==
    /\ pc = "node"
    /\ log' = log \o << Emit(NodeStartEvent(cur, state)),
                        Invoke(cur, NodeInput(cur, state)) >>
    /\ \E resp \in Responses(MaxFrames - frames) :
         /\ response' = resp
         /\ sent' = [sent EXCEPT ![cur] = resp]
         /\ frames' = frames + Len(resp)
    /\ final_result' = PyNone
    /\ pc' = "stream"
    /\ UNCHANGED <<cur, state, memory_id, exc>>
    /\ UNCHANGED <<appVars, twoVars, opsVars>>

\* An invocation whose exception is swallowed: the node goes on with no
\* result.
EnterNodeInvokeFails_swallow ==
    /\ pc = "node"
    /\ \E cause \in TransportCauses :
         log' = log \o << Emit(NodeStartEvent(cur, state)),
                          Invoke(cur, NodeInput(cur, state)),
                          Fault(cur, cause),
                          Emit(NodeCompleteEvent(cur, state, PyNone)) >>
    /\ state' = NodeStore(cur, state, PyNone)
    /\ cur' = NextNode(cur)
    /\ pc' = IF NextNode(cur) = END THEN "done" ELSE "node"
    /\ UNCHANGED <<memory_id, final_result, response, sent, frames, exc>>
    /\ UNCHANGED <<appVars, twoVars, opsVars>>

\* A node starts and invoke_agent_runtime raises: nothing catches the
\* exception, the run ends with it.
EnterNodeInvokeFails ==
    /\ pc = "node"
    /\ \E cause \in TransportCauses :
         /\ log' = log \o << Emit(NodeStartEvent(cur, state)),
                             Invoke(cur, NodeInput(cur, state)),
                             Fault(cur, cause) >>
         /\ exc' = cause
    /\ pc' = "raised"
    /\ UNCHANGED <<cur, state, memory_id, final_result, response, sent,
                   frames>>
    /\ UNCHANGED <<appVars, twoVars, opsVars>>

\* A loop that keeps the result of the first streaming_complete frame.
RecvLine_first ==
    /\ pc = "stream"
    /\ response # << >>
    /\ response' = Tail(response)
    /\ LET line == Head(response) IN
         IF line.raw = "empty"
         THEN UNCHANGED <<pc, exc, log, final_result>>
         ELSE IF line.raw = "bad_utf8"
         THEN /\ pc' = "raised"
              /\ exc' = "UnicodeDecodeError"
              /\ UNCHANGED <<log, final_result>>
         ELSE IF line.raw # "data"
         THEN UNCHANGED <<pc, exc, log, final_result>>
         ELSE IF line.body.json = "invalid"
         THEN UNCHANGED <<pc, exc, log, final_result>>
         ELSE /\ log' = Append(log, Emit(line.body))
              /\ IF line.body.json # "object"
                 THEN /\ pc' = "raised"
                      /\ exc' = "AttributeError"
                      /\ UNCHANGED final_result
                 ELSE /\ final_result' =
                            IF /\ line.body.type = "streaming_complete"
                               /\ final_result = PyNone
                            THEN line.body.val ELSE final_result
                      /\ UNCHANGED <<pc, exc>>
    /\ UNCHANGED <<cur, state, memory_id, sent, frames>>
    /\ UNCHANGED <<appVars, twoVars, opsVars>>

\* One iteration of the for loop of call_agent_with_streaming, on the next
\* line of the response.
RecvLine ==
    /\ pc = "stream"
    /\ response # << >>
    /\ response' = Tail(response)
    /\ LET line == Head(response) IN
         IF line.raw = "empty"
         THEN UNCHANGED <<pc, exc, log, final_result>>
         ELSE IF line.raw = "bad_utf8"
         THEN /\ pc' = "raised"
              /\ exc' = "UnicodeDecodeError"
              /\ UNCHANGED <<log, final_result>>
         ELSE IF line.raw # "data"
         THEN UNCHANGED <<pc, exc, log, final_result>>
         ELSE IF line.body.json = "invalid"
         THEN UNCHANGED <<pc, exc, log, final_result>>
         ELSE /\ log' = Append(log, Emit(line.body))
              /\ IF line.body.json # "object"
                 THEN /\ pc' = "raised"
                      /\ exc' = "AttributeError"
                      /\ UNCHANGED final_result
                 ELSE /\ final_result' =
                            IF line.body.type = "streaming_complete"
                            THEN line.body.val ELSE final_result
                      /\ UNCHANGED <<pc, exc>>
    /\ UNCHANGED <<cur, state, memory_id, sent, frames>>
    /\ UNCHANGED <<appVars, twoVars, opsVars>>

\* The lines of the response the transport delivered before it broke.
Delivered == SubSeq(sent[cur], 1, Len(sent[cur]) - Len(response))

\* A stream whose exception is swallowed: the node completes with what it
\* has.
StreamFails_partial ==
    /\ pc = "stream"
    /\ \E cause \in TransportCauses :
         log' = log \o << Fault(cur, cause),
                          Emit(NodeCompleteEvent(cur, state, final_result)) >>
    /\ sent' = [sent EXCEPT ![cur] = Delivered]
    /\ response' = << >>
    /\ state' = NodeStore(cur, state, final_result)
    /\ cur' = NextNode(cur)
    /\ pc' = IF NextNode(cur) = END THEN "done" ELSE "node"
    /\ UNCHANGED <<memory_id, final_result, frames, exc>>
    /\ UNCHANGED <<appVars, twoVars, opsVars>>

\* iter_lines raises: the connection broke while the response was open;
\* the lines not read yet are lost.
StreamFails ==
    /\ pc = "stream"
    /\ \E cause \in TransportCauses :
         /\ log' = Append(log, Fault(cur, cause))
         /\ exc' = cause
    /\ sent' = [sent EXCEPT ![cur] = Delivered]
    /\ response' = << >>
    /\ pc' = "raised"
    /\ UNCHANGED <<cur, state, memory_id, final_result, frames>>
    /\ UNCHANGED <<appVars, twoVars, opsVars>>

\* A node that relays one more frame after its node_complete.
StreamEnd_lateRelay ==
    /\ pc = "stream"
    /\ response = << >>
    /\ \E created \in BOOLEAN :
         log' = log \o << Emit(NodeCompleteEvent(cur, state, final_result)),
                          Emit(Frame("text_chunk", PyStr("hi"))) >>
                    \o SaveToMemory(memory_id, state.session_id, cur,
                                    NodeInput(cur, state), final_result,
                                    created)
    /\ state' = NodeStore(cur, state, final_result)
    /\ cur' = NextNode(cur)
    /\ pc' = IF NextNode(cur) = END THEN "done" ELSE "node"
    /\ UNCHANGED <<memory_id, final_result, response, sent, frames, exc>>
    /\ UNCHANGED <<appVars, twoVars, opsVars>>

\* A node in which the exception of create_event is not caught.
StreamEnd_raise ==
    /\ pc = "stream"
    /\ response = << >>
    /\ \E created \in BOOLEAN :
         /\ log' = log \o << Emit(NodeCompleteEvent(cur, state, final_result)) >>
                      \o SaveToMemory(memory_id, state.session_id, cur,
                                      NodeInput(cur, state), final_result,
                                      created)
         /\ IF ~created /\ ~SaveSkipped(memory_id, final_result)
            THEN /\ pc' = "raised"
                 /\ exc' = "MemoryError"
                 /\ UNCHANGED <<state, cur>>
            ELSE /\ state' = NodeStore(cur, state, final_result)
                 /\ cur' = NextNode(cur)
                 /\ pc' = IF NextNode(cur) = END THEN "done" ELSE "node"
                 /\ UNCHANGED exc
    /\ UNCHANGED <<memory_id, final_result, response, sent, frames>>
    /\ UNCHANGED <<appVars, twoVars, opsVars>>

\* A node that saves to memory before it writes node_complete.
StreamEnd_saveFirst ==
    /\ pc = "stream"
    /\ response = << >>
    /\ \E created \in BOOLEAN :
         log' = log \o SaveToMemory(memory_id, state.session_id, cur,
                                    NodeInput(cur, state), final_result,
                                    created)
                    \o << Emit(NodeCompleteEvent(cur, state, final_result)) >>
    /\ state' = NodeStore(cur, state, final_result)
    /\ cur' = NextNode(cur)
    /\ pc' = IF NextNode(cur) = END THEN "done" ELSE "node"
    /\ UNCHANGED <<memory_id, final_result, response, sent, frames, exc>>
    /\ UNCHANGED <<appVars, twoVars, opsVars>>

\* The response ends: call_agent_with_streaming returns final_result, the
\* node writes node_complete, saves to memory, stores the result in the
\* state and the graph follows the node's edge.
StreamEnd ==
    /\ pc = "stream"
    /\ response = << >>
    /\ \E created \in BOOLEAN :
         log' = log \o << Emit(NodeCompleteEvent(cur, state, final_result)) >>
                    \o SaveToMemory(memory_id, state.session_id, cur,
                                    NodeInput(cur, state), final_result,
                                    created)
    /\ state' = NodeStore(cur, state, final_result)
    /\ cur' = NextNode(cur)
    /\ pc' = IF NextNode(cur) = END THEN "done" ELSE "node"
    /\ UNCHANGED <<memory_id, final_result, response, sent, frames, exc>>
    /\ UNCHANGED <<appVars, twoVars, opsVars>>

Next ==
    \/ RunConsultation
    \/ EnterNode
    \/ EnterNodeInvokeFails
    \/ RecvLine
    \/ StreamFails
    \/ StreamEnd

Spec == Init /\ [][Next]_vars

(* ---------------- the app reading one stream ---------------- *)

\* invoke_agent_runtime returns: the response is open.
AppInvoke ==
    /\ app.pc = "idle"
    /\ app' = [app EXCEPT !.pc = "consuming"]
    /\ UNCHANGED <<feed, corr, pipeVars, twoVars, opsVars>>

\* invoke_agent_runtime raises.
AppInvokeFails ==
    /\ app.pc = "idle"
    /\ \E cause \in TransportCauses : app' = AppRaise(app, cause)
    /\ UNCHANGED <<feed, corr, pipeVars, twoVars, opsVars>>

\* The next stage's node_start arrives.
AppNodeStart ==
    /\ app.pc = "consuming"
    /\ ~feed.open
    /\ feed.started < 3
    /\ LET line == Line("data",
                        NodeStartEvent(Stages[feed.started + 1], AppSession))
       IN /\ app' = AppOnLine(app, line)
          /\ corr' = CorrOnLine(corr, line, Stages[feed.started + 1])
    /\ feed' = [feed EXCEPT !.started = feed.started + 1, !.open = TRUE]
    /\ UNCHANGED <<pipeVars, twoVars, opsVars>>

\* A line relayed from the open stage's agent arrives.
AppFrame ==
    /\ app.pc = "consuming"
    /\ feed.open
    /\ feed.n < MaxAppFrames
    /\ \E line \in AppLines :
         /\ app' = AppOnLine(app, line)
         /\ corr' = CorrOnLine(corr, line, Stages[feed.started])
    /\ feed' = [feed EXCEPT !.n = feed.n + 1]
    /\ UNCHANGED <<pipeVars, twoVars, opsVars>>

\* The open stage's node_complete arrives.
AppNodeComplete ==
    /\ app.pc = "consuming"
    /\ feed.open
    /\ \E r \in AppResults :
         LET line == Line("data",
                          NodeCompleteEvent(Stages[feed.started], AppSession,
                                            r))
         IN /\ app' = AppOnLine(app, line)
            /\ corr' = CorrOnLine(corr, line, Stages[feed.started])
    /\ feed' = [feed EXCEPT !.open = FALSE]
    /\ UNCHANGED <<pipeVars, twoVars, opsVars>>

\* The response ends: the for loop is left, the function returns success.
AppStreamEnd ==
    /\ app.pc = "consuming"
    /\ app' = [app EXCEPT !.pc = "returned", !.status = "success"]
    /\ UNCHANGED <<feed, corr, pipeVars, twoVars, opsVars>>

\* iter_lines raises.
AppStreamFails ==
    /\ app.pc = "consuming"
    /\ \E cause \in TransportCauses : app' = AppRaise(app, cause)
    /\ UNCHANGED <<feed, corr, pipeVars, twoVars, opsVars>>

AppNext ==
    \/ AppInvoke
    \/ AppInvokeFails
    \/ AppNodeStart
    \/ AppFrame
    \/ AppNodeComplete
    \/ AppStreamEnd
    \/ AppStreamFails

\* The deployment the app talks to has a memory id.
AppInit == Init /\ memory_id = PyStr("mem-1")

SpecApp == AppInit /\ [][AppNext]_vars

(* ---------------- two runs in one process ---------------- *)
(* Two calls of the entry point whose transports do not fail; what a       *)
(* failing transport does to a run is in Spec.                             *)

\* fund_manager_entrypoint is called for run i while the other run may be
\* in flight; the caller starts to read the chunks.
TwoRunConsultation ==
    /\ \E i \in RunIds, sid \in SessionArgs :
         /\ runs[i].pc = "idle"
         /\ runs' = [runs EXCEPT ![i] =
                [RunIdle EXCEPT
                   !.pc = "node", !.cur = "financial", !.arg = sid,
                   !.state = [NoState EXCEPT
                       !.user_input = TwoUserInput(i),
                       !.session_id = IF ~Truthy(sid)
                                      THEN SynthSessionId(now) ELSE sid]]]
         /\ cons' = [cons EXCEPT ![i].loc.pc = "consuming"]
    /\ UNCHANGED <<now, store, pipeVars, appVars, opsVars>>

\* A node of run i starts: node_start is yielded, the caller reads it, and
\* the agent is invoked.
TwoEnterNode ==
    /\ \E i \in RunIds :
         /\ runs[i].pc = "node"
         /\ \E resp \in TwoResponses(i, runs[i].cur,
                         MaxTwoLines - (runs[1].lines + runs[2].lines)) :
              LET n == runs[i].cur
                  st == RunState(runs, i)
              IN /\ runs' = [runs EXCEPT
                       ![i].out = Append(@, NodeStartEvent(n, st)),
                       ![i].inv = Append(@, [agent |-> n,
                                             payload |-> NodeInput(n, st)]),
                       ![i].response = resp,
                       ![i].lines = @ + Len(resp),
                       ![i].final_result = PyNone,
                       ![i].pc = "stream"]
                 /\ cons' = [cons EXCEPT
                       ![i] = ConsOnChunk(@, NodeStartEvent(n, st))]
    /\ UNCHANGED <<now, store, pipeVars, appVars, opsVars>>

\* Run i reads the next line of its open response; the caller reads the
\* chunk, if the line was relayed.
TwoRecvLine ==
    /\ \E i \in RunIds :
         /\ runs[i].pc = "stream"
         /\ runs[i].response # << >>
         /\ LET r == RunOnLine(runs[i], Head(runs[i].response))
            IN /\ runs' = [runs EXCEPT ![i] = r]
               /\ cons' = IF Len(r.out) > Len(runs[i].out)
                          THEN [cons EXCEPT
                                  ![i] = ConsOnChunk(@, LastChunk(r))]
                          ELSE cons
    /\ UNCHANGED <<now, store, pipeVars, appVars, opsVars>>

\* The response of run i ends: node_complete (which the caller reads),
\* save_to_memory, the result goes into the run's state and the graph
\* follows the edge.
TwoStreamEnd ==
    /\ \E i \in RunIds, created \in BOOLEAN :
         /\ runs[i].pc = "stream"
         /\ runs[i].response = << >>
         /\ LET n == runs[i].cur
                st == RunState(runs, i)
                res == runs[i].final_result
            IN /\ runs' = [runs EXCEPT
                     ![i].out = Append(@, NodeCompleteEvent(n, st, res)),
                     ![i].state = NodeStore(n, st, res),
                     ![i].cur = NextNode(n),
                     ![i].pc = IF NextNode(n) = END THEN "done" ELSE "node"]
               /\ cons' = [cons EXCEPT
                     ![i] = ConsOnChunk(@, NodeCompleteEvent(n, st, res))]
               /\ store' = store \cup
                     StoredTurns(SaveToMemory(memory_id, st.session_id, n,
                                              NodeInput(n, st), res, created))
    /\ UNCHANGED <<now, pipeVars, appVars, opsVars>>

\* The stream of run i is over: the loop of its caller ends.
TwoConsumeEnd ==
    /\ \E i \in RunIds :
         /\ cons[i].loc.pc = "consuming"
         /\ runs[i].pc = "done"
         /\ cons' = [cons EXCEPT ![i].loc.pc = "returned",
                                 ![i].loc.status = "success"]
    /\ UNCHANGED <<runs, now, store, pipeVars, appVars, opsVars>>

\* A second passes on the wall clock before a call of the entry point
\* reads it.
Tick ==
    /\ now < MaxClock
    /\ \E i \in RunIds : runs[i].pc = "idle"
    /\ now' = now + 1
    /\ UNCHANGED <<runs, cons, store, pipeVars, appVars, opsVars>>

TwoNext ==
    \/ TwoRunConsultation
    \/ TwoEnterNode
    \/ TwoRecvLine
    \/ TwoStreamEnd
    \/ TwoConsumeEnd
    \/ Tick

SpecTwo == AppInit /\ [][TwoNext]_vars

(* ---------------- a run that waits for the Memory Store ---------------- *)
(* The run of Spec with create_event as a call that is made and then       *)
(* returns: between the two the run is at "saving".  The agents'           *)
(* transports do not fail here.                                            *)

\* Number of lines the three agents send, in total, during such a run.
MaxLiveLines == 1

\* A Memory Store that answers every create_event call, and one that
\* never answers.
MemoryServices == {"answers", "silent"}

\* A node starts: node_start is written, the agent is invoked and answers.
LiveEnterNode ==
    /\ pc = "node"
    /\ log' = log \o << Emit(NodeStartEvent(cur, state)),
                        Invoke(cur, NodeInput(cur, state)) >>
    /\ \E resp \in Responses(MaxLiveLines - frames) :
         /\ response' = resp
         /\ sent' = [sent EXCEPT ![cur] = resp]
         /\ frames' = frames + Len(resp)
    /\ final_result' = PyNone
    /\ pc' = "stream"
    /\ UNCHANGED <<cur, state, memory_id, exc>>
    /\ UNCHANGED <<appVars, twoVars, opsVars>>

\* The response ends: node_complete is written and save_to_memory is
\* called.  If its guard returns at once the node returns too; if not,
\* create_event is called and the run waits for it.
LiveNodeComplete ==
    /\ pc = "stream"
    /\ response = << >>
    /\ log' = Append(log, Emit(NodeCompleteEvent(cur, state, final_result)))
    /\ IF SaveSkipped(memory_id, final_result)
       THEN /\ state' = NodeStore(cur, state, final_result)
            /\ cur' = NextNode(cur)
            /\ pc' = IF NextNode(cur) = END THEN "done" ELSE "node"
       ELSE /\ pc' = "saving"
            /\ UNCHANGED <<state, cur>>
    /\ UNCHANGED <<memory_id, final_result, response, sent, frames, exc>>
    /\ UNCHANGED <<appVars, twoVars, opsVars>>

\* create_event returns or raises (the except clause swallows it); the
\* node stores the result and the graph follows the node's edge.
LiveCreateEventReturns ==
    /\ pc = "saving"
    /\ memsvc = "answers"
    /\ \E created \in BOOLEAN :
         log' = log \o SaveToMemory(memory_id, state.session_id, cur,
                                    NodeInput(cur, state), final_result,
                                    created)
    /\ state' = NodeStore(cur, state, final_result)
    /\ cur' = NextNode(cur)
    /\ pc' = IF NextNode(cur) = END THEN "done" ELSE "node"
    /\ UNCHANGED <<memory_id, final_result, response, sent, frames, exc>>
    /\ UNCHANGED <<appVars, twoVars, opsVars>>

LiveNext ==
    \/ RunConsultation
    \/ LiveEnterNode
    \/ RecvLine
    \/ LiveNodeComplete
    \/ LiveCreateEventReturns

LiveInit ==
    /\ InitProgram
    /\ memory_id = PyStr("mem-1")
    /\ memsvc \in MemoryServices

\* The run takes every step it can take.
SpecLive == LiveInit /\ [][LiveNext]_vars /\ WF_vars(LiveNext)

(* ---------------- the cleanup scripts ---------------- *)

\* main starts: load_deployment_info; with no info at all it returns.
CleanupMain ==
    /\ cleanup.pc = "idle"
    /\ \E script \in CleanupScripts :
         \E infos \in SUBSET InfosOf(script) :
            cleanup' = [cleanup EXCEPT
                !.script = script, !.infos = infos,
                !.pc = IF infos = {} THEN "returned" ELSE "confirm"]
    /\ UNCHANGED <<reader, memsvc, deploy, pipeVars, appVars, twoVars>>

\* The first prompt.
CleanupConfirm ==
    /\ cleanup.pc = "confirm"
    /\ \E answer \in Answers :
         cleanup' = [cleanup EXCEPT
             !.first = answer,
             !.pc = IF SaysYes(answer) THEN "deleting" ELSE "returned"]
    /\ UNCHANGED <<reader, memsvc, deploy, pipeVars, appVars, twoVars>>

\* The next delete call main has to make.
NextStep ==
    LET todo == {k \in Applicable(cleanup.script, cleanup.infos) :
                    \A c \in cleanup.called : c < k}
    IN IF todo = {} THEN 0 ELSE CHOOSE k \in todo : \A m \in todo : k <= m

\* main makes its next delete call.
CleanupDelete ==
    /\ cleanup.pc = "deleting"
    /\ NextStep # 0
    /\ \E outcome \in DeleteOutcomes :
         /\ outcome # "deleted" => cleanup.faults < MaxFaults
         /\ LET fn == StepsOf(cleanup.script)[NextStep].fn
            IN cleanup' = [cleanup EXCEPT
                  !.called = @ \cup {NextStep},
                  !.failed = IF outcome = "deleted" THEN @
                             ELSE @ \cup {NextStep},
                  !.faults = IF outcome = "deleted" THEN @ ELSE @ + 1,
                  !.pc = IF DeleteEnds(fn, outcome) = "raises"
                         THEN "raised" ELSE "deleting"]
    /\ UNCHANGED <<reader, memsvc, deploy, pipeVars, appVars, twoVars>>

\* The second prompt, and cleanup_local_files if the answer is yes: the
\* files are unlinked in order; an unlink that raises ends the script.
CleanupLocalFiles ==
    /\ cleanup.pc = "deleting"
    /\ NextStep = 0
    /\ \E answer \in Answers :
         IF ~SaysYes(answer)
         THEN cleanup' = [cleanup EXCEPT !.second = answer,
                                         !.pc = "returned"]
         ELSE \/ cleanup' = [cleanup EXCEPT
                    !.second = answer, !.pc = "returned",
                    !.unlinked = 1..FileCount(cleanup.script)]
              \/ /\ cleanup.faults < MaxFaults
                 /\ \E k \in 1..FileCount(cleanup.script) :
                      cleanup' = [cleanup EXCEPT
                         !.second = answer, !.pc = "raised",
                         !.unlinked = 1..(k - 1), !.stuck = k,
                         !.faults = @ + 1]
    /\ UNCHANGED <<reader, memsvc, deploy, pipeVars, appVars, twoVars>>

CleanupNext ==
    \/ CleanupMain
    \/ CleanupConfirm
    \/ CleanupDelete
    \/ CleanupLocalFiles

SpecCleanup == AppInit /\ [][CleanupNext]_vars

(* ---------------- the deployment script ---------------- *)

\* main starts: the infos are loaded, the role is created and the runtime
\* is configured and launched.
DeployLaunch ==
    /\ deploy.pc = "idle"
    /\ deploy' = [deploy EXCEPT !.pc = "polling"]
    /\ UNCHANGED <<reader, memsvc, cleanup, pipeVars, appVars, twoVars>>

\* One of the steps before the loop raises: main returns 1.
DeployLaunchFails ==
    /\ deploy.pc = "idle"
    /\ deploy' = [deploy EXCEPT !.pc = "done", !.rc = 1]
    /\ UNCHANGED <<reader, memsvc, cleanup, pipeVars, appVars, twoVars>>

\* One iteration of the loop in which the status check answers: the loop
\* is left at a final status; otherwise it sleeps and, after the last
\* iteration, ends.
DeployPoll ==
    /\ deploy.pc = "polling"
    /\ \E status \in EndpointStatuses :
         deploy' = [deploy EXCEPT
             !.polls = @ + 1, !.status = status, !.observed = status,
             !.pc = IF Breaks(status) \/ deploy.polls + 1 = PollLimit
                    THEN "polled" ELSE "polling"]
    /\ UNCHANGED <<reader, memsvc, cleanup, pipeVars, appVars, twoVars>>

\* One iteration of the loop in which the status check raises: the error
\* is printed and the loop sleeps.
DeployPollRaises ==
    /\ deploy.pc = "polling"
    /\ deploy' = [deploy EXCEPT
          !.polls = @ + 1,
          !.pc = IF deploy.polls + 1 = PollLimit THEN "polled"
                 ELSE "polling"]
    /\ UNCHANGED <<reader, memsvc, cleanup, pipeVars, appVars, twoVars>>

\* After the loop: status != 'READY' raises (an unbound status raises as
\* it is read), and main returns 1; with READY the info is returned and
\* main writes deployment_info.json and returns 0, unless building the
\* info or opening the file raises.
DeployFinish ==
    /\ deploy.pc = "polled"
    /\ IF deploy.status = Unbound \/ deploy.status # "READY"
       THEN deploy' = [deploy EXCEPT !.pc = "done", !.rc = 1]
       ELSE \E saved \in BOOLEAN :
              deploy' = [deploy EXCEPT !.pc = "done",
                                       !.rc = IF saved THEN 0 ELSE 1,
                                       !.written = saved]
    /\ UNCHANGED <<reader, memsvc, cleanup, pipeVars, appVars, twoVars>>

DeployNext ==
    \/ DeployLaunch
    \/ DeployLaunchFails
    \/ DeployPoll
    \/ DeployPollRaises
    \/ DeployFinish

SpecDeploy == AppInit /\ [][DeployNext]_vars

(* ---------------- the history menu ---------------- *)

\* The SUMMARY strategy of the Memory Store writes a record into the
\* namespace of a session.
SummaryCreated ==
    /\ \E a \in AppSessions, rec \in SummaryRecords :
         /\ \A b \in AppSessions : \A r \in reader.stored[b] :
                r.createdAt < rec.createdAt
         /\ reader' = [reader EXCEPT !.stored[a] = @ \cup {rec}]
    /\ UNCHANGED <<memsvc, cleanup, deploy, pipeVars, appVars, twoVars>>

\* The history menu is rendered: load_current_session_summary reads the
\* session's namespace and the page shows what it returned.
HistoryMenu ==
    /\ reader.pc = "idle"
    /\ \E resp \in Retrievals(reader.stored[reader.session]) :
         LET data == SummaryOf(reader.session, resp)
         IN reader' = [reader EXCEPT
                !.pc = "shown", !.held = reader.stored[reader.session],
                !.response = resp, !.raised = FALSE,
                !.data = data, !.page = HistoryPage(data)]
    /\ UNCHANGED <<memsvc, cleanup, deploy, pipeVars, appVars, twoVars>>

\* The history menu is rendered and retrieve_memories raises.
HistoryMenuReadFails ==
    /\ reader.pc = "idle"
    /\ \E cause \in TransportCauses :
         LET data == SummaryFailed(reader.session, cause)
         IN reader' = [reader EXCEPT
                !.pc = "shown", !.held = reader.stored[reader.session],
                !.response = << >>, !.raised = TRUE,
                !.data = data, !.page = HistoryPage(data)]
    /\ UNCHANGED <<memsvc, cleanup, deploy, pipeVars, appVars, twoVars>>

\* The refresh button: st.rerun().
Refresh ==
    /\ reader.pc = "shown"
    /\ reader' = [reader EXCEPT !.pc = "idle"]
    /\ UNCHANGED <<memsvc, cleanup, deploy, pipeVars, appVars, twoVars>>

\* The new-session button: another current_session_id, and a rerun.
NewSession ==
    /\ \E a \in AppSessions \ {reader.session} :
         reader' = [reader EXCEPT !.pc = "idle", !.session = a]
    /\ UNCHANGED <<memsvc, cleanup, deploy, pipeVars, appVars, twoVars>>

ReaderNext ==
    \/ SummaryCreated
    \/ HistoryMenu
    \/ HistoryMenuReadFails
    \/ Refresh
    \/ NewSession

SpecReader == AppInit /\ [][ReaderNext]_vars

(* ---------------- views of the history ---------------- *)

IsNodeStart(e) ==
    e.op = "emit" /\ e.data.json = "object" /\ e.data.type = "node_start"

IsNodeComplete(e) ==
    e.op = "emit" /\ e.data.json = "object" /\ e.data.type = "node_complete"

\* An event relayed from the agent's stream (not written by the node itself).
IsRelayed(e) == e.op = "emit" /\ ~IsNodeStart(e) /\ ~IsNodeComplete(e)

StartsAt == {i \in DOMAIN log : IsNodeStart(log[i])}

CompletesAt == {i \in DOMAIN log : IsNodeComplete(log[i])}

InvokesAt == {i \in DOMAIN log : log[i].op = "invoke"}

WritesAt == {i \in DOMAIN log : log[i].op = "write"}

FaultsAt == {i \in DOMAIN log : log[i].op = "fault"}

(* ---------------- C1 ---------------- *)

\* C1: the stages of a run are entered in the order financial, portfolio,
\* risk: the k-th node_start of the history is that of the k-th stage (so no
\* stage is entered twice), a stage is entered only after the node_complete
\* of its predecessor, and at most one stage is entered and not finished.
C1_StageOrder ==
    /\ Cardinality(StartsAt) <= 3
    /\ \A i \in StartsAt :
         LET k == Cardinality({j \in StartsAt : j <= i}) IN
           /\ log[i].data.agent_name = Stages[k]
           /\ k > 1 =>
                \E j \in CompletesAt :
                    j < i /\ log[j].data.agent_name = Stages[k - 1]
    /\ Cardinality(StartsAt) - Cardinality(CompletesAt) \in {0, 1}
    /\ pc \in {"node", "stream"} =>
         /\ cur \in StageSet
         /\ Cardinality(CompletesAt) = StageNo(cur) - 1

\* C1 witness: a run that went through the three stages.
C1_Witness ==
    /\ pc = "done"
    /\ Cardinality(StartsAt) = 3
    /\ Cardinality(CompletesAt) = 3

(* ---------------- C2 ---------------- *)

\* The Result captured from stage n: the result its node_complete carries.
CapturedResult(n) ==
    LET j == CHOOSE j \in CompletesAt : log[j].data.agent_name = n
    IN log[j].data.val

\* C2: every agent invocation of the history carries the payload of its
\* stage: the request for financial, the Result captured from the financial
\* stage for portfolio, the Result captured from the portfolio stage for
\* risk; each stage is invoked at most once.
C2_StagePayloads ==
    /\ \A i \in InvokesAt :
         /\ log[i].agent = "financial" => log[i].data = state.user_input
         /\ log[i].agent = "portfolio" =>
              /\ \E j \in CompletesAt :
                    j < i /\ log[j].data.agent_name = "financial"
              /\ log[i].data = CapturedResult("financial")
         /\ log[i].agent = "risk" =>
              /\ \E j \in CompletesAt :
                    j < i /\ log[j].data.agent_name = "portfolio"
              /\ log[i].data = CapturedResult("portfolio")
    /\ \A i, j \in InvokesAt : log[i].agent = log[j].agent => i = j

\* C2 witness: the three agents were invoked and the two Results that were
\* passed on differ from each other.
C2_Witness ==
    /\ \E i \in InvokesAt :
          log[i].agent = "portfolio" /\ log[i].data = PyStr("ra")
    /\ \E i \in InvokesAt :
          log[i].agent = "risk" /\ log[i].data = PyStr("rb")

(* ---------------- C3 ---------------- *)

\* C3: after a transport failure of stage N's invocation the history holds
\* no invocation of a later stage and no memory write for N or a later
\* stage, and the run has ended with the exception.
C3_TransportFailureStops ==
    \A i \in FaultsAt :
        /\ pc = "raised"
        /\ i = Len(log)
        /\ \A j \in InvokesAt : StageNo(log[j].agent) <= StageNo(log[i].agent)
        /\ \A j \in WritesAt : StageNo(log[j].agent) < StageNo(log[i].agent)

\* C3 witness: the portfolio agent's response broke after the financial
\* stage had been saved.
C3_Witness ==
    \E i \in FaultsAt :
        /\ log[i].agent = "portfolio"
        /\ \E j \in WritesAt : log[j].agent = "financial"

(* ---------------- C4 ---------------- *)

\* C4: a memory write of stage N that failed is swallowed: it directly
\* follows N's node_complete, the run does not end with an exception because
\* of it, and the next step is the invocation of stage N+1 with the Result
\* that N's node_complete carries (after risk, the run is done).
C4_WriteFailureSwallowed ==
    \A i \in WritesAt :
        ~log[i].ok =>
          LET n == log[i].agent
              r == log[i - 1].data.val
          IN /\ IsNodeComplete(log[i - 1])
             /\ log[i - 1].data.agent_name = n
             /\ i = Len(log) =>
                  /\ exc = NoTag
                  /\ cur = NextNode(n)
                  /\ pc = IF n = "risk" THEN "done" ELSE "node"
                  /\ n # "risk" => NodeInput(cur, state) = r
             /\ i < Len(log) =>
                  /\ n # "risk"
                  /\ IsNodeStart(log[i + 1])
                  /\ log[i + 1].data.agent_name = NextNode(n)
                  /\ log[i + 2] = Invoke(NextNode(n), r)

\* C4 witness: the write of the financial stage failed and the portfolio
\* agent was invoked with the financial Result.
C4_Witness ==
    \E i \in WritesAt :
        /\ ~log[i].ok
        /\ log[i].agent = "financial"
        /\ \E j \in InvokesAt :
              /\ j > i
              /\ log[j] = Invoke("portfolio", PyStr("ra"))

(* ---------------- C5 ---------------- *)

\* The memory writes issued for stage n.
WritesOf(n) == {j \in WritesAt : log[j].agent = n}

\* C5, as claimed: every stage that reached node_complete has exactly one
\* memory write.
C5_OneWritePerCompletedStage ==
    \A i \in CompletesAt :
        Cardinality(WritesOf(log[i].data.agent_name)) = 1

\* C5, amended: a stage that reached node_complete has exactly one memory
\* write, issued right after its node_complete and so before the next stage
\* starts, if its Result is truthy and a memory id is configured; otherwise
\* it has none. No stage has more than one.
C5_OneWritePerResult ==
    \A i \in CompletesAt :
        LET n == log[i].data.agent_name IN
          IF Truthy(log[i].data.val) /\ Truthy(memory_id)
          THEN /\ WritesOf(n) = {i + 1}
               /\ log[i + 1].data.assistant = <<n, log[i].data.val.v>>
          ELSE WritesOf(n) = {}

\* C5 witness: one stage completed with a Result and was saved, another
\* completed without a Result and was not.
C5_Witness ==
    /\ \E i \in CompletesAt :
          /\ log[i].data.agent_name = "financial"
          /\ Truthy(log[i].data.val)
          /\ WritesOf("financial") # {}
    /\ \E i \in CompletesAt :
          /\ log[i].data.agent_name = "portfolio"
          /\ ~Truthy(log[i].data.val)
    /\ pc = "stream"
    /\ cur = "risk"

(* ---------------- C6 ---------------- *)

\* C6: every memory write of stage N comes after N's node_complete and
\* before any invocation of a later stage, so the writes of a run are in
\* stage order.
C6_WriteOrder ==
    /\ \A j \in WritesAt :
         /\ \E i \in CompletesAt :
               i < j /\ log[i].data.agent_name = log[j].agent
         /\ \A k \in InvokesAt :
               StageNo(log[k].agent) > StageNo(log[j].agent) => j < k
    /\ \A j, k \in WritesAt :
         j < k => StageNo(log[j].agent) < StageNo(log[k].agent)

\* C6 witness: the financial and the portfolio turns are written, in this
\* order, and the risk agent has been invoked.
C6_Witness ==
    /\ \E j, k \in WritesAt :
          j < k /\ log[j].agent = "financial" /\ log[k].agent = "portfolio"
    /\ \E k \in InvokesAt : log[k].agent = "risk"

(* ---------------- C7 ---------------- *)

\* An error event of the orchestrator that carries this cause.
IsErrorEvent(e, cause) ==
    /\ e.op = "emit"
    /\ e.data.json = "object"
    /\ e.data.type = "error"
    /\ e.data.val = PyStr(cause)

\* C7, as claimed: a failed stage is followed by an error event carrying
\* the cause on the output, no later stage is invoked and nothing is
\* written to memory for the failed stage.
C7_ErrorEventOnFailure ==
    \A i \in FaultsAt :
        /\ \E j \in DOMAIN log : j > i /\ IsErrorEvent(log[j], log[i].data)
        /\ \A j \in InvokesAt : StageNo(log[j].agent) <= StageNo(log[i].agent)
        /\ WritesOf(log[i].agent) = {}

(* ---------------- C8 ---------------- *)

\* The error frames relayed from an agent's stream.
ErrorFramesAt ==
    {i \in DOMAIN log :
        /\ IsRelayed(log[i])
        /\ log[i].data.json = "object"
        /\ log[i].data.type = "error"}

\* C8, as claimed: a stage whose stream delivered an error frame never
\* completes with a Result and no later stage is invoked.
C8_ErrorFrameFails ==
    \A i \in ErrorFramesAt :
        /\ \A j \in CompletesAt : log[j].data.agent_name # log[i].agent
        /\ \A j \in InvokesAt : StageNo(log[j].agent) <= StageNo(log[i].agent)

(* ---------------- C9 ---------------- *)

\* The streaming_complete frames relayed in stage n.
CompleteFramesOf(n) ==
    {i \in DOMAIN log :
        /\ IsRelayed(log[i])
        /\ log[i].agent = n
        /\ log[i].data.json = "object"
        /\ log[i].data.type = "streaming_complete"}

\* Stage n's field of the state.
NodeField(n, st) ==
    CASE n = "financial" -> st.financial_analysis
      [] n = "portfolio" -> st.portfolio_recommendation
      [] n = "risk" -> st.risk_analysis

\* C9: when the transport of stage N fails before a streaming_complete
\* frame arrived, the run ends with the transport's cause as its exception,
\* and no Result exists for N: no node_complete, nothing stored in the
\* state, nothing written to memory.
C9_TransportFailureNoResult ==
    \A i \in FaultsAt :
        LET n == log[i].agent IN
          CompleteFramesOf(n) = {} =>
            /\ pc = "raised"
            /\ exc = log[i].data
            /\ \A j \in CompletesAt : log[j].data.agent_name # n
            /\ NodeField(n, state) = PyStr("")
            /\ WritesOf(n) = {}

\* C9 witness: the financial transport broke after a text_chunk was
\* relayed and before any streaming_complete.
C9_Witness ==
    \E i \in FaultsAt :
        /\ log[i].agent = "financial"
        /\ i > 3
        /\ log[i - 1].data = Frame("text_chunk", PyStr("hi"))
        /\ CompleteFramesOf("financial") = {}

(* ---------------- C10 ---------------- *)

IsJsonDataLine(l) == l.raw = "data" /\ l.body.json # "invalid"

\* The lines that start with "data: " and parse as JSON, decoded, in order.
DecodedSubsequence(ls) ==
    LET sel == SelectSeq(ls, IsJsonDataLine)
    IN [k \in 1..Len(sel) |-> sel[k].body]

\* The events relayed from stage n's agent, in order.
RelayedOf(n) ==
    LET IsOfN(e) == IsRelayed(e) /\ e.agent = n
        sel == SelectSeq(log, IsOfN)
    IN [k \in 1..Len(sel) |-> sel[k].data]

\* Stage n's response has been consumed or abandoned.
StreamOver(n) ==
    \/ StageNo(n) < Cardinality(StartsAt)
    \/ StageNo(n) = Cardinality(StartsAt) /\ pc \in {"node", "done", "raised"}

\* C10, as claimed: once the response of a stage is over, the events
\* relayed from it are the decoded subsequence of the lines the transport
\* delivered.
C10_RelayIsDecodedSubsequence ==
    \A n \in StageSet :
        StreamOver(n) => RelayedOf(n) = DecodedSubsequence(sent[n])

(* ---------------- C11 ---------------- *)

IsObjectDataLine(l) == l.raw = "data" /\ l.body.json = "object"

\* The well-formed frames of a response, in order.
ObjectFramesOf(ls) ==
    LET sel == SelectSeq(ls, IsObjectDataLine)
    IN [k \in 1..Len(sel) |-> sel[k].body]

\* The well-formed frames relayed from stage n's agent, in order.
RelayedObjectsOf(n) ==
    LET IsObjectOfN(e) ==
            IsRelayed(e) /\ e.agent = n /\ e.data.json = "object"
        sel == SelectSeq(log, IsObjectOfN)
    IN [k \in 1..Len(sel) |-> sel[k].data]

\* C11, as claimed: no malformed line ends the run, and once the response
\* of a stage is over every well-formed frame the transport delivered has
\* been relayed, whatever malformed lines came before it.
C11_MalformedFrameNotFatal ==
    /\ exc \notin {"AttributeError", "UnicodeDecodeError"}
    /\ \A n \in StageSet :
         StreamOver(n) => RelayedObjectsOf(n) = ObjectFramesOf(sent[n])

(* ---------------- C12 ---------------- *)

StartsOf(n) == {i \in StartsAt : log[i].data.agent_name = n}

CompletesOf(n) == {i \in CompletesAt : log[i].data.agent_name = n}

\* C17: for each stage the output holds at most one node_start and one
\* node_complete, the node_start first; every event relayed from the
\* stage's agent lies between the two; the node_complete carries the
\* stage's Result; the next stage is entered and its agent invoked only
\* after this node_complete, and a finished run has all three.
C17_StageBracket ==
    \A n \in StageSet :
        /\ Cardinality(StartsOf(n)) <= 1
        /\ Cardinality(CompletesOf(n)) <= 1
        /\ \A b \in CompletesOf(n) :
             /\ \E a \in StartsOf(n) : a < b
             /\ log[b].data.val = NodeField(n, state)
             /\ CompleteFramesOf(n) = {} => log[b].data.val = PyNone
             /\ \A f \in CompleteFramesOf(n) :
                  f < b /\ (\A g \in CompleteFramesOf(n) : g <= f)
                    => log[b].data.val = log[f].data.val
        /\ \A i \in DOMAIN log :
             IsRelayed(log[i]) /\ log[i].agent = n =>
               /\ \E a \in StartsOf(n) : a < i
               /\ \A b \in CompletesOf(n) : i < b
        /\ \A k \in DOMAIN log :
             /\ log[k].op \in {"invoke", "emit"}
             /\ log[k].agent # n
             /\ StageNo(log[k].agent) > StageNo(n)
             => \E b \in CompletesOf(n) : b < k
        /\ pc = "done" => CompletesOf(n) # {}

\* C17 witness: a finished run in which the financial and the portfolio
\* agent each had a frame relayed.
C17_Witness ==
    /\ pc = "done"
    /\ \E i, j \in DOMAIN log :
          /\ IsRelayed(log[i]) /\ log[i].agent = "financial"
          /\ IsRelayed(log[j]) /\ log[j].agent = "portfolio"

(* ---------------- C13 ---------------- *)

\* The last line the app read is a tool_result.
LastIsToolResult == corr.last.type = "tool_result"

\* The stage whose events the app is reading.
FeedStage == Stages[feed.started]

\* C13: a tool_result whose id has a tool_use of the same stage that no
\* tool_result has answered yet is handled with the tool name and the tool
\* input recorded at that tool_use, whatever came in between.
C13_ResultUsesRecordedTool ==
    (/\ LastIsToolResult
     /\ corr.expect # NoPending
     /\ corr.expect.stage = FeedStage)
    => app.handled = [id |-> corr.last.val.v,
                      name |-> ActualToolName(corr.expect.name),
                      input |-> corr.expect.input,
                      agent |-> FeedStage]

\* C13 witness: a tool_result that answers a tool_use of the gateway tool
\* two lines after it, in the same stage.
C13_Witness ==
    /\ LastIsToolResult
    /\ corr.expect # NoPending
    /\ corr.expect.stage = FeedStage
    /\ corr.expect.name = <<"gw", "get_market_data">>
    /\ feed.n - corr.expect.at = 2
    /\ app.handled.name = "get_market_data"
    /\ app.handled.input = "i2"

(* ---------------- C14 ---------------- *)

\* C14, as claimed: node_start leaves the maps of pending tool calls empty,
\* and a tool_result whose id was recorded by a tool_use of an earlier stage
\* is handled as unknown.
C14_NoCorrelationAcrossStages ==
    /\ corr.last.type = "node_start" =>
         \A t \in ToolIds :
             /\ app.tool_id_to_name[t] = Absent
             /\ app.tool_id_to_input[t] = Absent
    /\ (/\ LastIsToolResult
        /\ corr.expect # NoPending
        /\ corr.expect.stage # FeedStage)
       => /\ app.handled.name = Unknown
          /\ app.handled.input = Unknown

(* ---------------- C15 ---------------- *)

\* C15: an id whose last tool event is a handled tool_result is in neither
\* map, and a tool_result for an id that was answered already, with no
\* tool_use since, is handled as unknown.
C15_ResultRemovesEntry ==
    /\ \A t \in corr.resolved :
         /\ app.tool_id_to_name[t] = Absent
         /\ app.tool_id_to_input[t] = Absent
    /\ LastIsToolResult /\ corr.again =>
         /\ app.handled.id = corr.last.val.v
         /\ app.handled.name = Unknown
         /\ app.handled.input = Unknown

\* C15 witness: a tool_use, its tool_result, and the same tool_result once
\* more.
C15_Witness ==
    /\ LastIsToolResult
    /\ corr.again
    /\ corr.matched = 1
    /\ feed.n = 3
    /\ app.handled.name = Unknown

(* ---------------- C16 ---------------- *)

\* C16: a tool_result whose id has no pending tool_use is handled under the
\* name and input "unknown" and does not end the call: while it is the last
\* line read, the call is still reading, or the stream ended, or the
\* transport failed.
C16_MissIsNotFatal ==
    LastIsToolResult /\ corr.expect = NoPending =>
        /\ app.handled = [id |-> corr.last.val.v, name |-> Unknown,
                          input |-> Unknown, agent |-> FeedStage]
        /\ \/ app.pc = "consuming"
           \/ app.status = "success"
           \/ app.status = "error" /\ app.error \in TransportCauses

\* C16 witness: a call that handled a tool_result as unknown, read the
\* three stages to the end and returned success.
C16_Witness ==
    /\ app.status = "success"
    /\ feed.started = 3
    /\ ~feed.open
    /\ corr.matched = 0
    /\ app.handled # NoHandled
    /\ app.handled.name = Unknown

(* ---------------- C18 ---------------- *)

\* C18, as claimed: the call returns status error only for a failure of the
\* transport or an error event of the active stage.
C18_OnlyFatalFailureIsReported ==
    app.status = "error" => app.error \in TransportCauses \cup {"boom"}

(* ---------------- C19 ---------------- *)

\* The chunks of run i that its caller has read.
ReadOf(i) == SubSeq(runs[i].out, 1, cons[i].read)

\* The stage of the last node_start in a sequence of chunks.
LastStarted(chunks) ==
    LET at == {k \in DOMAIN chunks : chunks[k].type = "node_start"}
    IN IF at = {} THEN NoTag
       ELSE chunks[CHOOSE k \in at : \A m \in at : m <= k].agent_name

\* The results run i has yielded for stage n in its node_complete chunks.
YieldedResults(i, n) ==
    {runs[i].out[k].val :
        k \in {m \in DOMAIN runs[i].out :
                  /\ runs[i].out[m].type = "node_complete"
                  /\ runs[i].out[m].agent_name = n}}

\* What stage n of run i is to be invoked with.
OwnInputs(i, n) ==
    IF n = "financial" THEN {TwoUserInput(i)}
    ELSE YieldedResults(i, Stages[StageNo(n) - 1])

\* C19: of two runs that interleave, each node_complete carries the result
\* of the run's own agent invocation (or none), each agent of a run is
\* invoked with the run's own request or its own predecessor result, and
\* the stage cursor and the tool map of a run's caller follow that run's
\* chunks only.
C19_RunsAreIndependent ==
    \A i \in RunIds :
        /\ \A n \in StageSet :
               YieldedResults(i, n) \subseteq {PyNone, TwoResult(i, n)}
        /\ \A k \in DOMAIN runs[i].inv :
               runs[i].inv[k].payload \in OwnInputs(i, runs[i].inv[k].agent)
        /\ cons[i].loc.pc = "consuming" =>
               cons[i].loc.current_agent = LastStarted(ReadOf(i))
        /\ cons[i].loc.tool_id_to_name["t1"]
               \in {Absent, ActualToolName(TwoToolName(i))}
        /\ cons[i].loc.handled.name
               \in {NoTag, Unknown, ActualToolName(TwoToolName(i))}

\* C19 witness: both runs, under the same session id, are in their
\* portfolio stage at once; the first was given a financial result and its
\* portfolio agent is invoked with it, the second was given none and its
\* portfolio agent is invoked with None; each caller has read its own run's
\* chunks.
C19_Witness ==
    /\ \A i \in RunIds :
          /\ runs[i].pc = "stream"
          /\ runs[i].cur = "portfolio"
          /\ runs[i].state.session_id = PyStr("sA")
          /\ cons[i].loc.current_agent = "portfolio"
    /\ runs[1].inv[2] = [agent |-> "portfolio",
                         payload |-> TwoResult(1, "financial")]
    /\ runs[2].inv[2] = [agent |-> "portfolio", payload |-> PyNone]
    /\ cons[1].loc.shown = {"financial"}
    /\ cons[2].loc.shown = {}

(* ---------------- C20 ---------------- *)

\* Run i is in flight.
Active(i) == runs[i].pc \in {"node", "stream"}

\* C20, as claimed: two runs in flight at once that were both called
\* without a session_id have different session ids.
C20_SynthesizedIdsDistinct ==
    \A i, j \in RunIds :
        (/\ i # j
         /\ Active(i) /\ Active(j)
         /\ ~Truthy(runs[i].arg) /\ ~Truthy(runs[j].arg))
        => runs[i].state.session_id # runs[j].state.session_id

(* ---------------- C21 ---------------- *)

\* C21, as claimed: a read of a namespace without a summary, and a read
\* that failed, both give found = False without an error, and the page
\* shows the "no summary yet" warning.
C21_AbsentOrFailedReadIsNoSummary ==
    (reader.pc = "shown" /\ (reader.held = {} \/ reader.raised)) =>
        /\ ~reader.data.found
        /\ reader.data.error = NoTag
        /\ reader.page = "st.warning"

(* ---------------- C22 ---------------- *)

\* C22, as claimed: the summary shown is the record with the greatest
\* createdAt of the response.
C22_LatestSummaryIsNewest ==
    (reader.pc = "shown" /\ Len(reader.response) > 0) =>
        /\ reader.data.found
        /\ \A k \in DOMAIN reader.response :
               reader.response[k].createdAt <= reader.data.timestamp.iso

(* ---------------- C23 ---------------- *)

\* C23, as claimed: with a Memory Store that never answers, a run still
\* comes to its end.
C23_SilentStoreDoesNotStall ==
    (memsvc = "silent") ~> (pc \in {"done", "raised"})

(* ---------------- C24 ---------------- *)

\* The kinds of frame the spec names.
KnownTypes ==
    {"text_chunk", "tool_use", "tool_result", "streaming_complete", "error"}

\* C24, as claimed: no frame of an unknown type is on the output of the
\* pipeline.
C24_UnknownFramesIgnored ==
    \A i \in DOMAIN log :
        IsRelayed(log[i]) /\ log[i].data.json = "object"
            => log[i].data.type \in KnownTypes

(* ---------------- C25 ---------------- *)

\* C25: a tool_use is in the maps under its id with its own name and
\* input, whatever was there, and a tool_result whose pending tool_use took
\* the place of an earlier one is handled with the later one's name and
\* input.
C25_LatestToolUseWins ==
    /\ corr.last.type = "tool_use" =>
          /\ app.tool_id_to_name[corr.last.val.v]
                 = ActualToolName(corr.last.val.name)
          /\ app.tool_id_to_input[corr.last.val.v] = corr.last.val.input
    /\ (LastIsToolResult /\ corr.expect.over # << >>) =>
          /\ app.handled.id = corr.last.val.v
          /\ app.handled.name = ActualToolName(corr.expect.name)
          /\ app.handled.input = corr.expect.input

\* C25 witness: tool_use of the calculator, tool_use of the gateway tool
\* under the same id, then the tool_result of the id.
C25_Witness ==
    /\ LastIsToolResult
    /\ corr.expect.over = <<"calculator">>
    /\ corr.expect.name = <<"gw", "get_market_data">>
    /\ app.handled.name = "get_market_data"
    /\ app.handled.input = "i2"
    /\ app.tool_id_to_name[corr.last.val.v] = Absent

(* ---------------- C28 ---------------- *)

\* C28: an error event is the last line the app reads: the call has
\* returned status error with the event's message.
C28_ErrorEventEndsConsumption ==
    corr.last.type = "error" =>
        /\ app.pc = "returned"
        /\ app.status = "error"
        /\ app.error = corr.last.val.v

\* C28 witness: an error event in the portfolio stage, after the financial
\* result was displayed.
C28_Witness ==
    /\ corr.last.type = "error"
    /\ app.status = "error"
    /\ app.error = "boom"
    /\ FeedStage = "portfolio"
    /\ app.shown = {"financial"}

(* ---------------- C26 ---------------- *)

IsStreamingComplete(ev) == ev.json = "object" /\ ev.type = "streaming_complete"

\* The streaming_complete frames relayed from stage n's agent, in order.
CompletionsOf(n) == SelectSeq(RelayedOf(n), IsStreamingComplete)

\* C26: a stage whose stream ended without a streaming_complete frame has
\* a node_complete with the result None and no memory write, and the run
\* goes on: the next stage is about to be invoked or was invoked, with None.
C26_NoResultStillAdvances ==
    \A i \in CompletesAt :
        LET n == log[i].data.agent_name IN
        CompletionsOf(n) = << >> =>
            /\ log[i].data.val = PyNone
            /\ WritesOf(n) = {}
            /\ NextNode(n) # END =>
                 /\ \/ pc = "node" /\ cur = NextNode(n)
                    \/ \E j \in InvokesAt : j > i /\ log[j].agent = NextNode(n)
                 /\ \A j \in InvokesAt :
                        log[j].agent = NextNode(n) => log[j].data = PyNone

\* C26 witness: the financial stream relayed a text_chunk and no
\* streaming_complete, and the portfolio agent was invoked with None under
\* a memory id.
C26_Witness ==
    /\ Truthy(memory_id)
    /\ RelayedOf("financial") = << Frame("text_chunk", PyStr("hi")) >>
    /\ \E i \in CompletesAt :
          log[i].data.agent_name = "financial" /\ log[i].data.val = PyNone
    /\ \E j \in InvokesAt : log[j].agent = "portfolio" /\ log[j].data = PyNone

(* ---------------- C27 ---------------- *)

\* C27: of a stage that completed, every well-formed frame of the response
\* was relayed, those after a streaming_complete frame too, and the result
\* of its node_complete is that of the last streaming_complete frame.
C27_LastCompletionIsResult ==
    \A i \in CompletesAt :
        LET n == log[i].data.agent_name
            done == CompletionsOf(n)
        IN /\ RelayedOf(n) = ObjectFramesOf(sent[n])
           /\ done # << >> => log[i].data.val = done[Len(done)].val

\* C27 witness: two streaming_complete frames in the financial stream; the
\* stage's result is that of the second.
C27_Witness ==
    /\ RelayedOf("financial") = << Frame("streaming_complete", PyStr("ra")),
                                   Frame("streaming_complete", PyStr("rb")) >>
    /\ \E i \in CompletesAt :
          /\ log[i].data.agent_name = "financial"
          /\ log[i].data.val = PyStr("rb")

(* ---------------- C29 ---------------- *)

\* C29, as claimed: nothing is deleted without a yes to the first prompt,
\* no local file without a yes to the second, and in a confirmed run that
\* is over every delete call of the script was made, the second prompt was
\* asked and, after a yes, every local file but one whose unlink failed
\* was unlinked.
C29_CleanupIsConfirmedAndGoesOn ==
    /\ (cleanup.called # {} \/ cleanup.unlinked # {}) => SaysYes(cleanup.first)
    /\ cleanup.unlinked # {} => SaysYes(cleanup.second)
    /\ (cleanup.pc \in {"returned", "raised"} /\ SaysYes(cleanup.first)) =>
          /\ cleanup.called = Applicable(cleanup.script, cleanup.infos)
          /\ cleanup.second # NoTag
          /\ SaysYes(cleanup.second) =>
                cleanup.unlinked =
                    (1..FileCount(cleanup.script)) \ {cleanup.stuck}

(* ---------------- C30 ---------------- *)

\* C30: the status is checked at most 30 times, no check follows one that
\* gave READY or a failed status, and a run that is over returned 0, or
\* wrote deployment_info.json, only if the last status observed is READY:
\* if not, it wrote nothing and returned 1.
C30_DeployWaitIsBounded ==
    /\ deploy.polls <= 30
    /\ deploy.pc = "polling" =>
          deploy.observed \notin
              {"READY", "CREATE_FAILED", "DELETE_FAILED", "UPDATE_FAILED"}
    /\ deploy.pc = "done" =>
          /\ deploy.observed # "READY" => deploy.rc = 1 /\ ~deploy.written
          /\ deploy.rc = 0 => deploy.observed = "READY" /\ deploy.written

\* C30 witness: every one of the 30 status checks raised, and main
\* returned 1 without writing the file.
C30_Witness ==
    /\ deploy.pc = "done"
    /\ deploy.polls = 30
    /\ deploy.observed = NoTag
    /\ deploy.rc = 1
    /\ ~deploy.written

====
